---- MODULE Spec2Model ----
(***************************************************************************)
(* Model of src/main.py: the typographic outline pipeline                  *)
(*   merge_and_clean_spans -> extract_lines -> detect_body_style ->        *)
(*   is_heading_candidate -> assign_heading_levels -> extract_best_title   *)
(*   -> process_pdf.                                                       *)
(*                                                                         *)
(* Conventions.                                                            *)
(*  - A text is a sequence of one-character strings.  The two Arabic       *)
(*    marks of main.py:71 are the tokens ArabicFullStop, ArabicQuestion.   *)
(*  - Font sizes are integers in hundredths of a point, so the 0.1 of      *)
(*    main.py:11 is SizeTol = 10; coordinates are integer page units.      *)
(*    The ratio tests (1.1x, 1.2x, 0.9x, 0.25x, 0.6, 0.5) are written      *)
(*    cross-multiplied, which is exact.  Sizes are positive.               *)
(*  - A Python dict is a record; a key the dict does not hold is a field   *)
(*    the record does not have ("bold" \notin DOMAIN s).                   *)
(***************************************************************************)
EXTENDS Integers, Sequences, FiniteSets, TLC

VARIABLES
    pc,            \* position in the program under the specification at hand
    spans,         \* merge_and_clean_spans: the caller's list of span dicts
    spans0,        \* the same list as it was handed in (history)
    idx,           \* merge_and_clean_spans: index of the next span of the loop
    merged,        \* merge_and_clean_spans: the list being built
    line,          \* is_heading_candidate: its line argument
    body,          \* is_heading_candidate: its body argument
    cand,          \* is_heading_candidate: its return value
    headings,      \* assign_heading_levels: its argument (dicts updated in place)
    headings0,     \* the argument as it was handed in (history)
    labeled,       \* assign_heading_levels: its return value
    metadata,      \* extract_best_title: doc.metadata
    pool,          \* extract_best_title: its lines argument
    title,         \* extract_best_title: its return value
    doc,           \* process_pdf: the opened document (pages, blocks, lines, spans)
    lines,         \* process_pdf: extract_lines' result
    body_style,    \* process_pdf: detect_body_style's result
    heading_lines, \* process_pdf: the lines is_heading_candidate accepted
    outline,       \* process_pdf: the outline list
    titlepool,     \* process_pdf: the list handed to extract_best_title
    result         \* process_pdf: its return value

vars == <<pc, spans, spans0, idx, merged, line, body, cand, headings, headings0,
          labeled, metadata, pool, title, doc, lines, body_style, heading_lines,
          outline, titlepool, result>>

mergeVars == <<spans, spans0, idx, merged>>
headVars  == <<line, body, cand>>
levelVars == <<headings, headings0, labeled>>
titleVars == <<metadata, pool, title>>
docVars   == <<doc, lines, body_style, heading_lines, outline, titlepool, result>>

\* Python's None in a font-size field
NoSize == -1

----------------------------------------------------------------------------
(* Characters and texts *)

ArabicFullStop == "U+06D4"
ArabicQuestion == "U+061F"

Digits == {"0", "1", "2", "3", "4", "5", "6", "7", "8", "9"}
Lower == {"a", "b", "c", "d", "e", "f", "g", "h", "i", "j", "k", "l", "m",
          "n", "o", "p", "q", "r", "s", "t", "u", "v", "w", "x", "y", "z"}
Upper == {"A", "B", "C", "D", "E", "F", "G", "H", "I", "J", "K", "L", "M",
          "N", "O", "P", "Q", "R", "S", "T", "U", "V", "W", "X", "Y", "Z"}

\* str.isalpha on one character
isalpha(c) == c \in Lower \cup Upper
\* regex \d
isdigit(c) == c \in Digits
\* regex \w
isword(c) == isalpha(c) \/ isdigit(c) \/ c = "_"
\* what str.strip() removes
isspace(c) == c = " "

Abs(n) == IF n < 0 THEN -n ELSE n
Min(a, b) == IF a < b THEN a ELSE b
Max(a, b) == IF a > b THEN a ELSE b

RECURSIVE CountIf(_, _)
\* sum(c.isalpha() for c in text)
AlphaCount(text) == Cardinality({i \in 1..Len(text) : isalpha(text[i])})
CountIf(text, c) ==
    IF text = <<>> THEN 0
    ELSE (IF Head(text) = c THEN 1 ELSE 0) + CountIf(Tail(text), c)

RECURSIVE LStrip(_)
LStrip(text) ==
    IF text # <<>> /\ isspace(Head(text)) THEN LStrip(Tail(text)) ELSE text
RECURSIVE RStrip(_)
RStrip(text) ==
    IF text # <<>> /\ isspace(text[Len(text)])
    THEN RStrip(SubSeq(text, 1, Len(text) - 1)) ELSE text
\* str.strip()
strip(text) == RStrip(LStrip(text))

----------------------------------------------------------------------------
(* merge_and_clean_spans, main.py:7-22 *)

SizeTol == 10
GapTol == 10
BoldBit == 2

\* (span.get('flags', 0) & 2) != 0
BoldOf(span) == (span.flags \div BoldBit) % 2 = 1

\* span['bold'] = ... : the dict gains (or overwrites) the key bold
SetBold(span) ==
    [text |-> span.text, font |-> span.font, size |-> span.size,
     flags |-> span.flags, bbox |-> span.bbox, bold |-> BoldOf(span)]

ShouldMerge_NoAbs(open, span) ==
    /\ span.font = open.font
    /\ Abs(span.size - open.size) < SizeTol
    /\ span.bbox[1] - open.bbox[3] < GapTol

\* the condition of main.py:11 without its leading "merged and"
ShouldMerge(open, span) ==
    /\ span.font = open.font
    /\ Abs(span.size - open.size) < SizeTol
    /\ Abs(open.bbox[3] - span.bbox[1]) < GapTol

\* main.py:12-19
Coalesce(open, span) ==
    [open EXCEPT !.text = @ \o span.text,
                 !.bbox = <<Min(@[1], span.bbox[1]), Min(@[2], span.bbox[2]),
                            Max(@[3], span.bbox[3]), Max(@[4], span.bbox[4])>>,
                 !.bold = @ \/ span.bold]

\* one iteration of the loop on the span as updated by line 10
MergeOne(m, span) ==
    IF m # <<>> /\ ShouldMerge(m[Len(m)], span)
    THEN [m EXCEPT ![Len(m)] = Coalesce(@, span)]
    ELSE Append(m, span)

RECURSIVE MergeFrom(_, _)
MergeFrom(m, rest) ==
    IF rest = <<>> THEN m
    ELSE MergeFrom(MergeOne(m, SetBold(Head(rest))), Tail(rest))

\* the value merge_and_clean_spans returns
merge_and_clean_spans(ss) == MergeFrom(<<>>, ss)

----------------------------------------------------------------------------
(* extract_lines, main.py:24-50 *)

TextBlock == 0

RECURSIVE JoinText(_)
\* ''.join(span['text'] for span in spans)
JoinText(ss) == IF ss = <<>> THEN <<>> ELSE Head(ss).text \o JoinText(Tail(ss))

LineStep_Prepend(acc, rawline, page_num, width) ==
    LET ms == merge_and_clean_spans(rawline.spans)
        text == strip(JoinText(ms))
    IN  IF ms = <<>> THEN acc
        ELSE IF text = <<>> THEN acc
        ELSE <<[text |-> text,
                font_size |-> ms[1].size,
                font_name |-> ms[1].font,
                page_num |-> page_num,
                bbox |-> rawline.bbox,
                page_width |-> width,
                spans |-> ms]>> \o acc

\* the body of the innermost loop, main.py:33-48: the lines list after one raw line
LineStep(acc, rawline, page_num, width) ==
    LET ms == merge_and_clean_spans(rawline.spans)
        text == strip(JoinText(ms))
    IN  IF ms = <<>> THEN acc
        ELSE IF text = <<>> THEN acc
        ELSE Append(acc, [text |-> text,
                          font_size |-> ms[1].size,
                          font_name |-> ms[1].font,
                          page_num |-> page_num,
                          bbox |-> rawline.bbox,
                          page_width |-> width,
                          spans |-> ms])

RECURSIVE LinesOfBlock(_, _, _, _)
LinesOfBlock(acc, rawlines, page_num, width) ==
    IF rawlines = <<>> THEN acc
    ELSE LinesOfBlock(LineStep(acc, Head(rawlines), page_num, width),
                      Tail(rawlines), page_num, width)

RECURSIVE LinesOfPage(_, _, _, _)
LinesOfPage(acc, blocks, page_num, width) ==
    IF blocks = <<>> THEN acc
    ELSE LET b == Head(blocks)
             acc2 == IF b.type # TextBlock THEN acc
                     ELSE LinesOfBlock(acc, b.lines, page_num, width)
         IN  LinesOfPage(acc2, Tail(blocks), page_num, width)

RECURSIVE LinesOfPages(_, _, _)
\* enumerate(doc, start=1)
LinesOfPages(acc, pages, page_num) ==
    IF pages = <<>> THEN acc
    ELSE LinesOfPages(LinesOfPage(acc, Head(pages).blocks, page_num, Head(pages).width),
                      Tail(pages), page_num + 1)

extract_lines(d) == LinesOfPages(<<>>, d.pages, 1)

----------------------------------------------------------------------------
(* detect_body_style, main.py:52-55 *)

\* the generator's filter "if line['font_size']": None and 0 are both falsy
Truthy(size) == size # NoSize /\ size # 0

RECURSIVE CounterKeys(_, _)
\* the keys of the Counter in insertion order
CounterKeys(keys, ls) ==
    IF ls = <<>> THEN keys
    ELSE LET l == Head(ls)
             k == <<l.font_size, l.font_name>>
         IN  IF Truthy(l.font_size) /\ ~(\E i \in 1..Len(keys) : keys[i] = k)
             THEN CounterKeys(Append(keys, k), Tail(ls))
             ELSE CounterKeys(keys, Tail(ls))

CounterValue(ls, k) ==
    Cardinality({i \in 1..Len(ls) :
        Truthy(ls[i].font_size) /\ <<ls[i].font_size, ls[i].font_name>> = k})

RECURSIVE MaxLast(_, _, _)
MaxLast(ls, keys, best) ==
    IF keys = <<>> THEN best
    ELSE IF CounterValue(ls, Head(keys)) >= CounterValue(ls, best)
         THEN MaxLast(ls, Tail(keys), Head(keys))
         ELSE MaxLast(ls, Tail(keys), best)

RECURSIVE MaxFirst(_, _, _)
\* most_common(1): max() over the items keeps the first of the largest counts
MaxFirst(ls, keys, best) ==
    IF keys = <<>> THEN best
    ELSE IF CounterValue(ls, Head(keys)) > CounterValue(ls, best)
         THEN MaxFirst(ls, Tail(keys), Head(keys))
         ELSE MaxFirst(ls, Tail(keys), best)

most_common_1(ls, keys) == MaxFirst(ls, Tail(keys), Head(keys))

\* most_common(1)[0] raises IndexError on an empty Counter
CounterEmpty(ls) == CounterKeys(<<>>, ls) = <<>>

\* the value detect_body_style returns when the Counter is not empty
detect_body_style(ls) ==
    LET k == most_common_1(ls, CounterKeys(<<>>, ls))
    IN  [font_size |-> k[1], font_name |-> k[2]]

----------------------------------------------------------------------------
(* is_heading_candidate, main.py:57-81 *)

MinLen == 10

RECURSIVE DigitRun(_, _)
\* the length of the longest run of digits of text that starts at position i (\d+)
DigitRun(text, i) ==
    IF i <= Len(text) /\ isdigit(text[i]) THEN 1 + DigitRun(text, i + 1) ELSE 0

\* re.search(r'(\w)\1{2,}', text)
HasRepeat(text) ==
    \E i \in 1..(Len(text) - 2) :
        isword(text[i]) /\ text[i + 1] = text[i] /\ text[i + 2] = text[i]

\* re.match(r'^[a-zA-Z]\)$', text) or re.match(r'^\(\d+\)$', text)
IsListMarker(text) ==
    \/ Len(text) = 2 /\ isalpha(text[1]) /\ text[2] = ")"
    \/ Len(text) >= 3 /\ text[1] = "(" /\ DigitRun(text, 2) = Len(text) - 2
                      /\ text[Len(text)] = ")"

\* re.match(r'^\d+(\.\d+)*', text): the pattern matches as soon as \d+ does
HasNumericPrefix(text) == DigitRun(text, 1) >= 1

SentenceEnd == {".", ArabicFullStop, ArabicQuestion}

\* any(span.get('bold') for span in line.get('spans', []))
AnyBold(l) ==
    \E i \in 1..Len(l.spans) : "bold" \in DOMAIN l.spans[i] /\ l.spans[i].bold

\* main.py:61-72: the early returns
Rejects(l) ==
    LET text == l.text
    IN  \/ text = <<>> \/ l.font_size = NoSize
        \/ Len(text) < MinLen
        \/ 10 * AlphaCount(text) < 6 * Max(Len(text), 1)
        \/ HasRepeat(text)
        \/ IsListMarker(text)
        \/ text[Len(text)] \in SentenceEnd /\ ~HasNumericPrefix(text)

Accepts_NoConcise(l, b) ==
    LET large == 10 * l.font_size > 11 * b.font_size
        no_dot == l.text[Len(l.text)] # "."
    IN  large /\ no_dot /\ (AnyBold(l) \/ 10 * l.font_size > 12 * b.font_size)

\* main.py:74-81
Accepts(l, b) ==
    LET bold == AnyBold(l)
        concise == 10 * (l.bbox[3] - l.bbox[1]) < 9 * l.page_width
        large == 10 * l.font_size > 11 * b.font_size
        no_dot == l.text[Len(l.text)] # "."
    IN  large /\ concise /\ no_dot /\ (bold \/ 10 * l.font_size > 12 * b.font_size)

is_heading_candidate(l, b) == IF Rejects(l) THEN FALSE ELSE Accepts(l, b)

----------------------------------------------------------------------------
(* assign_heading_levels, main.py:83-93 *)

TopLevels == 3

RECURSIVE SortDesc(_)
\* sorted(set_of_sizes, reverse=True)
SortDesc(S) ==
    IF S = {} THEN <<>>
    ELSE LET m == CHOOSE x \in S : \A y \in S : y <= x
         IN  <<m>> \o SortDesc(S \ {m})

LevelName(n) == IF n = 1 THEN "H1" ELSE IF n = 2 THEN "H2" ELSE "H3"

SizeRank_Top2(hs, size) ==
    LET sizes == SortDesc({hs[i].font_size : i \in 1..Len(hs)})
        top == SubSeq(sizes, 1, Min(TopLevels - 1, Len(sizes)))
    IN  IF \E i \in 1..Len(top) : top[i] = size
        THEN CHOOSE i \in 1..Len(top) : top[i] = size
        ELSE 0

\* size_map: the rank (1..3) of a size among sizes[:3], 0 when the size is no key
SizeRank(hs, size) ==
    LET sizes == SortDesc({hs[i].font_size : i \in 1..Len(hs)})
        top == SubSeq(sizes, 1, Min(TopLevels, Len(sizes)))
    IN  IF \E i \in 1..Len(top) : top[i] = size
        THEN CHOOSE i \in 1..Len(top) : top[i] = size
        ELSE 0

RECURSIVE OutlineGroups(_, _)
\* the number of (\d+\.) groups that match from position i
OutlineGroups(text, i) ==
    LET d == DigitRun(text, i)
    IN  IF d >= 1 /\ i + d <= Len(text) /\ text[i + d] = "."
        THEN 1 + OutlineGroups(text, i + d + 1)
        ELSE 0

\* re.match(r'^(\d+\.)+\d*', text)
HasOutlinePrefix(text) == OutlineGroups(text, 1) >= 1

\* h['text'].count('.')
Depth(text) == CountIf(text, ".")

SetField(h, key, value) ==
    [f \in DOMAIN h \cup {key} |-> IF f = key THEN value ELSE h[f]]

\* the loop body, main.py:88-92: the dict h after its iteration
LevelOne(hs, h) ==
    LET h1 == IF SizeRank(hs, h.font_size) # 0
              THEN SetField(h, "level", LevelName(SizeRank(hs, h.font_size)))
              ELSE h
    IN  IF HasOutlinePrefix(h.text)
        THEN SetField(h1, "level", LevelName(Min(TopLevels, Depth(h.text) + 1)))
        ELSE h1

\* the headings list after the loop (its dicts are updated in place)
LevelAll(hs) == [i \in 1..Len(hs) |-> LevelOne(hs, hs[i])]

HasLevel(h) == "level" \in DOMAIN h

\* the value assign_heading_levels returns
assign_heading_levels(hs) == SelectSeq(LevelAll(hs), HasLevel)

----------------------------------------------------------------------------
(* extract_best_title, main.py:95-106 *)

MinTitleLen == 10
MinLongLen == 20

Page1(l) == l.page_num = 1

RECURSIVE InsertDesc(_, _)
\* insert l behind every line whose size is not smaller: a stable descending sort
InsertDesc(sorted, l) ==
    IF sorted = <<>> THEN <<l>>
    ELSE IF Head(sorted).font_size >= l.font_size
         THEN <<Head(sorted)>> \o InsertDesc(Tail(sorted), l)
         ELSE <<l>> \o sorted

RECURSIVE SortBySizeDesc(_, _)
\* sorted(candidates, key=lambda x: -x['font_size'])
SortBySizeDesc(acc, ls) ==
    IF ls = <<>> THEN acc ELSE SortBySizeDesc(InsertDesc(acc, Head(ls)), Tail(ls))

\* the condition of main.py:101
BoldCentred(l) ==
    /\ AnyBold(l)
    /\ 2 * Abs((l.bbox[1] + l.bbox[3]) - l.page_width) < l.page_width

\* the condition of main.py:104
LongAlpha(l) ==
    /\ Len(l.text) > MinLongLen
    /\ 2 * AlphaCount(l.text) > Len(l.text)

RECURSIVE FirstIdx(_, _, _)
\* the index of the first line of ls, from i on, that the loop of kind k returns
\* on; 0 when the loop runs to its end
FirstIdx(ls, k, i) ==
    IF i > Len(ls) THEN 0
    ELSE IF (k = "bold" /\ BoldCentred(ls[i])) \/ (k = "long" /\ LongAlpha(ls[i]))
         THEN i
         ELSE FirstIdx(ls, k, i + 1)

\* doc.metadata and doc.metadata.get('title') and len(...strip()) > 10;
\* has_title is FALSE for a missing dict, a missing key and a None title
MetaTitleOk(md) ==
    /\ md.has_title /\ md.title # <<>>
    /\ Len(strip(md.title)) > MinTitleLen

Untitled == <<"U", "n", "t", "i", "t", "l", "e", "d">>

extract_best_title_LongFirst(md, ls) ==
    LET candidates == SelectSeq(ls, Page1)
        sorted == SortBySizeDesc(<<>>, candidates)
        b == FirstIdx(sorted, "bold", 1)
        g == FirstIdx(candidates, "long", 1)
    IN  IF MetaTitleOk(md) THEN strip(md.title)
        ELSE IF g # 0 THEN strip(candidates[g].text)
        ELSE IF b # 0 THEN strip(sorted[b].text)
        ELSE Untitled

extract_best_title(md, ls) ==
    LET candidates == SelectSeq(ls, Page1)
        sorted == SortBySizeDesc(<<>>, candidates)
        b == FirstIdx(sorted, "bold", 1)
        g == FirstIdx(candidates, "long", 1)
    IN  IF MetaTitleOk(md) THEN strip(md.title)
        ELSE IF b # 0 THEN strip(sorted[b].text)
        ELSE IF g # 0 THEN strip(candidates[g].text)
        ELSE Untitled

----------------------------------------------------------------------------
(* Inputs shared by the specifications *)

\* all sequences over S of length at most n
SeqsUpTo(S, n) == UNION {[1..k -> S] : k \in 0..n}

\* those of them that hold no element twice
DistinctSeqsUpTo(S, n) ==
    {f \in SeqsUpTo(S, n) : \A i, j \in DOMAIN f : i # j => f[i] # f[j]}

\* a RawSpan as page.get_text("dict") delivers it
RawSpan(text, font, size, flags, bbox) ==
    [text |-> text, font |-> font, size |-> size, flags |-> flags, bbox |-> bbox]

\* the values the variables of the other specifications keep
Idle == <<>>

----------------------------------------------------------------------------
(* SpecMerge: one call of merge_and_clean_spans, one loop iteration per step *)

MaxSpans == 3

\* Sizes 12.00, 12.06 and 12.12: neighbours differ by less than 0.1, the outer
\* two by more (no two binary floating-point sizes differ by exactly 0.1).
\* Left to right on one base line: A, B (5 right of A), E (2 right of B),
\* C (10 right of B); D starts inside A and B, as a span of a right-to-left
\* run does.
BoxA == <<0, 0, 20, 10>>
BoxB == <<25, 2, 50, 12>>
BoxC == <<60, 0, 80, 9>>
BoxD == <<5, 1, 18, 11>>
BoxE == <<52, 0, 70, 10>>

SpanPool ==
    { RawSpan(<<"A", "b">>, "F", 1200, 0, BoxA),
      RawSpan(<<"c", "d">>, "F", 1200, 2, BoxB),
      RawSpan(<<" ", "e">>, "F", 1206, 18, BoxB),
      RawSpan(<<"f">>, "F", 1212, 5, BoxB),
      RawSpan(<<"g">>, "G", 1200, 0, BoxB),
      RawSpan(<<"h">>, "F", 1200, 0, BoxC),
      RawSpan(<<"i">>, "F", 1200, 2, BoxD),
      RawSpan(<<"j", " ">>, "F", 1212, 0, BoxE),
      RawSpan(<<" ">>, "G", 1200, 0, BoxA) }

InitMerge ==
    /\ pc = "merge"
    /\ spans \in SeqsUpTo(SpanPool, MaxSpans)
    /\ spans0 = spans
    /\ idx = 1
    /\ merged = <<>>
    /\ line = Idle /\ body = Idle /\ cand = Idle
    /\ headings = Idle /\ headings0 = Idle /\ labeled = Idle
    /\ metadata = Idle /\ pool = Idle /\ title = Idle
    /\ doc = Idle /\ lines = Idle /\ body_style = Idle /\ heading_lines = Idle
    /\ outline = Idle /\ titlepool = Idle /\ result = Idle

\* main.py:9-21, one iteration: line 10 writes bold into the caller's dict,
\* lines 11-21 merge that dict into the open span or append a copy of it
MergeStep ==
    /\ pc = "merge"
    /\ idx <= Len(spans)
    /\ spans' = [spans EXCEPT ![idx] = SetBold(@)]
    /\ merged' = MergeOne(merged, SetBold(spans[idx]))
    /\ idx' = idx + 1
    /\ UNCHANGED <<pc, spans0, headVars, levelVars, titleVars, docVars>>

\* main.py:22
MergeReturn ==
    /\ pc = "merge"
    /\ idx > Len(spans)
    /\ pc' = "merged"
    /\ UNCHANGED <<mergeVars, headVars, levelVars, titleVars, docVars>>

NextMerge == MergeStep \/ MergeReturn

SpecMerge == InitMerge /\ [][NextMerge]_vars

UnionBox(a, b) ==
    <<IF a[1] <= b[1] THEN a[1] ELSE b[1], IF a[2] <= b[2] THEN a[2] ELSE b[2],
      IF a[3] >= b[3] THEN a[3] ELSE b[3], IF a[4] >= b[4] THEN a[4] ELSE b[4]>>

\* What one iteration must do to the list being built, given the verdict
\* `near` on the horizontal gap.
MergeRule(near) ==
    LET s == spans[idx]
        n == Len(merged)
        fits == /\ n > 0
                /\ s.font = merged[n].font
                /\ s.size - merged[n].size < SizeTol
                /\ merged[n].size - s.size < SizeTol
                /\ near
    IN  IF fits
        THEN /\ Len(merged') = n
             /\ \A k \in 1..(n - 1) : merged'[k] = merged[k]
             /\ merged'[n].text = merged[n].text \o s.text
             /\ merged'[n].bbox = UnionBox(merged[n].bbox, s.bbox)
             /\ merged'[n].font = merged[n].font
             /\ merged'[n].size = merged[n].size
        ELSE /\ Len(merged') = n + 1
             /\ \A k \in 1..n : merged'[k] = merged[k]
             /\ merged'[n + 1].text = s.text
             /\ merged'[n + 1].bbox = s.bbox
             /\ merged'[n + 1].font = s.font
             /\ merged'[n + 1].size = s.size

\* the gap read as the signed distance from the open right edge to the new left edge
GapSigned == spans[idx].bbox[1] - merged[Len(merged)].bbox[3] < GapTol
\* the gap read as the distance between the two edges, whichever lies left
GapDistance ==
    /\ spans[idx].bbox[1] - merged[Len(merged)].bbox[3] < GapTol
    /\ merged[Len(merged)].bbox[3] - spans[idx].bbox[1] < GapTol

\* C1 as stated: every iteration appends the span to the open MergedSpan
\* exactly when font names are equal, the sizes differ by less than 0.1 and the
\* gap from the open span's right edge x1 to the new span's left edge x0 is
\* less than 10; otherwise it opens a new MergedSpan.  On a merge the text is
\* the concatenation and the box the coordinate-wise union.
C1_MergeRule_Signed ==
    [][(pc = "merge" /\ idx' = idx + 1) => MergeRule(merged # <<>> /\ GapSigned)]_vars

\* C1 amended: the same, with the gap the absolute distance |x1 - x0| between
\* the open span's right edge and the new span's left edge.
C1_MergeRule ==
    [][(pc = "merge" /\ idx' = idx + 1) => MergeRule(merged # <<>> /\ GapDistance)]_vars

\* C1 witness: three same-font, same-size spans; the second merged into the
\* first, the third opened a new MergedSpan because it starts 10 or more units
\* left of the open right edge.
C1_Witness ==
    /\ pc = "merged" /\ Len(spans) = 3 /\ Len(merged) = 2
    /\ merged[1].text = spans0[1].text \o spans0[2].text
    /\ merged[1].bbox = UnionBox(spans0[1].bbox, spans0[2].bbox)
    /\ merged[2].font = merged[1].font /\ merged[2].size = merged[1].size
    /\ merged[1].bbox[3] - merged[2].bbox[1] >= GapTol

\* C10: the call leaves every RawSpan of its input with the fields and values
\* it had before the call.
C10_InputUntouched == spans = spans0

----------------------------------------------------------------------------
(* SpecHead: one call of is_heading_candidate *)

\* "Chapter Overview"
T_ChapterOverview ==
    <<"C", "h", "a", "p", "t", "e", "r", " ", "O", "v", "e", "r", "v", "i",
      "e", "w">>

\* "Overview"
T_Overview ==
    <<"O", "v", "e", "r", "v", "i", "e", "w">>

\* "Chap 12345 6789"
T_Digits ==
    <<"C", "h", "a", "p", " ", "1", "2", "3", "4", "5", " ", "6", "7", "8",
      "9">>

\* "Chapte 123"
T_Ratio60 ==
    <<"C", "h", "a", "p", "t", "e", " ", "1", "2", "3">>

\* "Baaad heading"
T_Repeat ==
    <<"B", "a", "a", "a", "d", " ", "h", "e", "a", "d", "i", "n", "g">>

\* "Intro --- details"
T_Dashes ==
    <<"I", "n", "t", "r", "o", " ", "-", "-", "-", " ", "d", "e", "t", "a",
      "i", "l", "s">>

\* "(1234567890)"
T_Marker ==
    <<"(", "1", "2", "3", "4", "5", "6", "7", "8", "9", "0", ")">>

\* "Chapter Overview."
T_Period ==
    <<"C", "h", "a", "p", "t", "e", "r", " ", "O", "v", "e", "r", "v", "i",
      "e", "w", ".">>

\* "2.3 Chapter Overview."
T_NumPeriod ==
    <<"2", ".", "3", " ", "C", "h", "a", "p", "t", "e", "r", " ", "O", "v",
      "e", "r", "v", "i", "e", "w", ".">>

\* "2 Chapter Overview<U+061F>"
T_NumArabic ==
    <<"2", " ", "C", "h", "a", "p", "t", "e", "r", " ", "O", "v", "e", "r",
      "v", "i", "e", "w", "U+061F">>

\* "Chapter Overview<U+06D4>"
T_Arabic ==
    <<"C", "h", "a", "p", "t", "e", "r", " ", "O", "v", "e", "r", "v", "i",
      "e", "w", "U+06D4">>

\* "2.3.1 Methodology"
T_Methodology ==
    <<"2", ".", "3", ".", "1", " ", "M", "e", "t", "h", "o", "d", "o", "l",
      "o", "g", "y">>


\* a MergedSpan as merge_and_clean_spans returns it
MergedSpan(text, font, size, flags, bbox) == SetBold(RawSpan(text, font, size, flags, bbox))

\* a Line as extract_lines builds it from the merged spans of one raw line
Line(text, page_num, bbox, width, ms) ==
    [text |-> text, font_size |-> ms[1].size, font_name |-> ms[1].font,
     page_num |-> page_num, bbox |-> bbox, page_width |-> width, spans |-> ms]

\* page.rect of every page of the inputs
PageRect == [width |-> 600]

HeadTexts ==
    {T_ChapterOverview, T_Overview, T_Digits, T_Ratio60, T_Repeat, T_Dashes,
     T_Marker, T_Period, T_NumPeriod, T_NumArabic, T_Arabic, T_Methodology}

\* widths 180, 539 and 540 of a 600 wide page: 540 is 0.9 x the page width
HeadBoxes == {<<50, 0, 230, 20>>, <<50, 0, 589, 20>>, <<50, 0, 590, 20>>}

\* 1100 is 1.1 x and 1200 is 1.2 x the body size 1000 (10.0, 11.0 and 12.0 are
\* exact in binary floating point, where 10.0 * 1.1 > 11.0 and 10.0 * 1.2 = 12.0)
HeadSizes == {1000, 1100, 1110, 1200, 1210}

\* the flags of the spans of the line: plain, bold, plain then bold (two fonts)
HeadSpans(text, size, bbox) ==
    { <<MergedSpan(text, "F", size, 0, bbox)>>,
      <<MergedSpan(text, "F", size, 2, bbox)>>,
      <<MergedSpan(SubSeq(text, 1, 4), "F", size, 4, bbox),
        MergedSpan(SubSeq(text, 5, Len(text)), "G", size, 18, bbox)>> }

HeadLines ==
    UNION { { Line(t, 1, b, PageRect.width, ms) : ms \in HeadSpans(t, z, b) } :
            <<t, z, b>> \in HeadTexts \X HeadSizes \X HeadBoxes }

HeadBodies == {[font_size |-> 1000, font_name |-> "F"],
               [font_size |-> 1100, font_name |-> "G"]}

InitHead ==
    /\ pc = "classify"
    /\ line \in HeadLines
    /\ body \in HeadBodies
    /\ cand = Idle
    /\ spans = Idle /\ spans0 = Idle /\ idx = Idle /\ merged = Idle
    /\ headings = Idle /\ headings0 = Idle /\ labeled = Idle
    /\ metadata = Idle /\ pool = Idle /\ title = Idle
    /\ doc = Idle /\ lines = Idle /\ body_style = Idle /\ heading_lines = Idle
    /\ outline = Idle /\ titlepool = Idle /\ result = Idle

\* main.py:57-81
Classify ==
    /\ pc = "classify"
    /\ cand' = is_heading_candidate(line, body)
    /\ pc' = "classified"
    /\ UNCHANGED <<line, body, mergeVars, levelVars, titleVars, docVars>>

NextHead == Classify

SpecHead == InitHead /\ [][NextHead]_vars

\* the rejection rules, each stated on the text alone
TooShort(t) == Len(t) <= 9
FewLetters(t) == 5 * Cardinality({i \in 1..Len(t) : t[i] \in Lower \cup Upper}) < 3 * Len(t)
RepeatedRun(t) ==
    \E i \in 1..Len(t), j \in 1..Len(t) :
        /\ j = i + 2
        /\ t[i] \in Lower \cup Upper \cup Digits \cup {"_"}
        /\ \A k \in i..j : t[k] = t[i]
ListMarker(t) ==
    \/ Len(t) = 2 /\ t[1] \in Lower \cup Upper /\ t[2] = ")"
    \/ /\ Len(t) > 2 /\ t[1] = "(" /\ t[Len(t)] = ")"
       /\ \A k \in 2..(Len(t) - 1) : t[k] \in Digits
SentenceLike(t) ==
    /\ t[Len(t)] \in {".", ArabicFullStop, ArabicQuestion}
    /\ t[1] \notin Digits
RuleRejects(t) ==
    TooShort(t) \/ FewLetters(t) \/ RepeatedRun(t) \/ ListMarker(t) \/ SentenceLike(t)

----------------------------------------------------------------------------
(* SpecLevel: one call of assign_heading_levels *)

\* "1.2 Results for v2.0 release"
T_Results ==
    <<"1", ".", "2", " ", "R", "e", "s", "u", "l", "t", "s", " ", "f", "o",
      "r", " ", "v", "2", ".", "0", " ", "r", "e", "l", "e", "a", "s", "e">>

\* "1. Introduction"
T_Introduction ==
    <<"1", ".", " ", "I", "n", "t", "r", "o", "d", "u", "c", "t", "i", "o",
      "n">>

\* "2 Related Work"
T_RelatedWork ==
    <<"2", " ", "R", "e", "l", "a", "t", "e", "d", " ", "W", "o", "r", "k">>

\* "1.2.3.4 Deep section name"
T_Deep ==
    <<"1", ".", "2", ".", "3", ".", "4", " ", "D", "e", "e", "p", " ", "s",
      "e", "c", "t", "i", "o", "n", " ", "n", "a", "m", "e">>

MaxHeadings == 4

LevelBody == [font_size |-> 1200, font_name |-> "F"]
LevelBox == <<50, 0, 230, 20>>

PlainLine(text, size, page_num, flags, bbox) ==
    Line(text, page_num, bbox, PageRect.width, <<MergedSpan(text, "F", size, flags, bbox)>>)

\* four sizes without an outline prefix, and numbered headings at the largest
\* and at the smallest size
LevelLines ==
    { PlainLine(T_ChapterOverview, 2400, 1, 0, LevelBox),
      PlainLine(T_ChapterOverview, 2000, 1, 2, LevelBox),
      PlainLine(T_Dashes, 1600, 1, 0, LevelBox),
      PlainLine(T_ChapterOverview, 1450, 2, 0, LevelBox),
      PlainLine(T_RelatedWork, 1450, 2, 0, LevelBox),
      PlainLine(T_Introduction, 2400, 1, 0, LevelBox),
      PlainLine(T_Methodology, 1450, 2, 0, LevelBox),
      PlainLine(T_Results, 1450, 2, 2, LevelBox),
      PlainLine(T_Deep, 2000, 2, 0, LevelBox) }

\* assign_heading_levels is handed lines that is_heading_candidate accepted
LevelPool == {l \in LevelLines : is_heading_candidate(l, LevelBody)}

InitLevel ==
    /\ pc = "assign"
    /\ headings \in SeqsUpTo(LevelPool, MaxHeadings)
    /\ headings0 = headings
    /\ labeled = Idle
    /\ spans = Idle /\ spans0 = Idle /\ idx = Idle /\ merged = Idle
    /\ line = Idle /\ body = Idle /\ cand = Idle
    /\ metadata = Idle /\ pool = Idle /\ title = Idle
    /\ doc = Idle /\ lines = Idle /\ body_style = Idle /\ heading_lines = Idle
    /\ outline = Idle /\ titlepool = Idle /\ result = Idle

\* main.py:83-93: the loop sets level in the caller's dicts, the return filters
Assign ==
    /\ pc = "assign"
    /\ headings' = LevelAll(headings)
    /\ labeled' = assign_heading_levels(headings)
    /\ pc' = "leveled"
    /\ UNCHANGED <<headings0, mergeVars, headVars, titleVars, docVars>>

NextLevel == Assign

SpecLevel == InitLevel /\ [][NextLevel]_vars

\* a dict without its level key
Unleveled(h) == [f \in DOMAIN h \ {"level"} |-> h[f]]

\* the number of dots of the leading run of "digits then dot" groups
RECURSIVE PrefixDots(_)
PrefixDots(t) ==
    IF \E n \in 1..(Len(t) - 1) :
           /\ \A k \in 1..n : t[k] \in Digits
           /\ t[n + 1] = "."
    THEN LET n == CHOOSE m \in 1..(Len(t) - 1) :
                      (\A k \in 1..m : t[k] \in Digits) /\ t[m + 1] = "."
         IN  1 + PrefixDots(SubSeq(t, n + 2, Len(t)))
    ELSE 0

Numbered(t) == PrefixDots(t) > 0

HLevel(n) == <<"H1", "H2", "H3">>[n]

\* 1 for the largest of the distinct sizes of hs, 2 for the next, ...
Rank(hs, size) ==
    1 + Cardinality({z \in {hs[i].font_size : i \in 1..Len(hs)} : z > size})

\* C3: every candidate with a dotted numeric outline prefix comes back with
\* level H{min(3, dot_count + 1)}, dot_count the dots of the matched prefix only.
C3_PrefixLevel ==
    pc = "leveled" =>
        \A k \in 1..Len(labeled) :
            Numbered(labeled[k].text) =>
                LET d == PrefixDots(labeled[k].text)
                IN  labeled[k].level = HLevel(IF d + 1 < 3 THEN d + 1 ELSE 3)

RECURSIVE KeptFrom(_, _)
\* the candidates of hs0 from index i on that are numbered or rank in the top 3
KeptFrom(hs0, i) ==
    IF i > Len(hs0) THEN <<>>
    ELSE IF Numbered(hs0[i].text) \/ Rank(hs0, hs0[i].font_size) <= 3
         THEN <<hs0[i]>> \o KeptFrom(hs0, i + 1)
         ELSE KeptFrom(hs0, i + 1)

\* C4: the largest distinct size maps to H1, the second to H2, the third to H3;
\* an unnumbered candidate gets exactly the level of its size; an unnumbered
\* candidate of the fourth or a lower size is absent from the result.
C4_SizeLevels ==
    pc = "leveled" =>
        /\ [k \in 1..Len(labeled) |-> Unleveled(labeled[k])] = KeptFrom(headings0, 1)
        /\ \A k \in 1..Len(labeled) :
               ~Numbered(labeled[k].text) =>
                   /\ Rank(headings0, labeled[k].font_size) <= 3
                   /\ labeled[k].level = HLevel(Rank(headings0, labeled[k].font_size))

\* C4 witness: four distinct sizes among unnumbered candidates; three entries
\* H1, H2, H3 came back and the fourth size was dropped.
C4_Witness ==
    /\ pc = "leveled" /\ Len(headings0) = 4 /\ Len(labeled) = 3
    /\ \A i \in 1..4 : ~Numbered(headings0[i].text)
    /\ {labeled[k].level : k \in 1..3} = {"H1", "H2", "H3"}

----------------------------------------------------------------------------
(* SpecTitle: one call of extract_best_title *)

\* "  Annual Report 2024 "
T_MetaLong ==
    <<" ", " ", "A", "n", "n", "u", "a", "l", " ", "R", "e", "p", "o", "r",
      "t", " ", "2", "0", "2", "4", " ">>

\* "AB"
T_MetaShort ==
    <<"A", "B">>

\* "   Report     "
T_MetaPadded ==
    <<" ", " ", " ", "R", "e", "p", "o", "r", "t", " ", " ", " ", " ", " ">>

\* "An Overview of the Results"
T_LongAlpha ==
    <<"A", "n", " ", "O", "v", "e", "r", "v", "i", "e", "w", " ", "o", "f",
      " ", "t", "h", "e", " ", "R", "e", "s", "u", "l", "t", "s">>

\* "Table 12345 67890 12345"
T_LongDigits ==
    <<"T", "a", "b", "l", "e", " ", "1", "2", "3", "4", "5", " ", "6", "7",
      "8", "9", "0", " ", "1", "2", "3", "4", "5">>

\* "Summary"
T_Short ==
    <<"S", "u", "m", "m", "a", "r", "y">>

MaxPool == 3

Meta(has_title, text) == [has_title |-> has_title, title |-> text]

\* no title, an empty one, one of 2 characters, one longer than 10 only with
\* its padding, one of 18 characters between blanks
TitleMetas ==
    {Meta(FALSE, <<>>), Meta(TRUE, <<>>), Meta(TRUE, T_MetaShort),
     Meta(TRUE, T_MetaPadded), Meta(TRUE, T_MetaLong)}

\* midpoints 300 (the centre of a 600 wide page), 449, 450 and 140
BoxCentre == <<210, 0, 390, 20>>
BoxNear == <<400, 0, 498, 20>>
BoxEdge == <<400, 0, 500, 20>>
BoxLeft == <<50, 0, 230, 20>>

TitleLines ==
    { PlainLine(T_Short, 2400, 1, 2, BoxCentre),
      PlainLine(T_ChapterOverview, 2600, 1, 2, BoxNear),
      PlainLine(T_Overview, 2400, 1, 18, BoxNear),
      PlainLine(T_Overview, 3000, 1, 2, BoxEdge),
      PlainLine(T_LongAlpha, 1200, 1, 0, BoxCentre),
      PlainLine(T_LongDigits, 3000, 1, 0, BoxCentre),
      PlainLine(T_LongAlpha, 1400, 1, 2, BoxLeft),
      PlainLine(T_Methodology, 3000, 2, 2, BoxCentre),
      PlainLine(T_Results, 1200, 2, 0, BoxCentre) }

InitTitle ==
    /\ pc = "select"
    /\ metadata \in TitleMetas
    /\ pool \in SeqsUpTo(TitleLines, MaxPool)
    /\ title = Idle
    /\ spans = Idle /\ spans0 = Idle /\ idx = Idle /\ merged = Idle
    /\ line = Idle /\ body = Idle /\ cand = Idle
    /\ headings = Idle /\ headings0 = Idle /\ labeled = Idle
    /\ doc = Idle /\ lines = Idle /\ body_style = Idle /\ heading_lines = Idle
    /\ outline = Idle /\ titlepool = Idle /\ result = Idle

\* main.py:95-106
SelectTitle ==
    /\ pc = "select"
    /\ title' = extract_best_title(metadata, pool)
    /\ pc' = "titled"
    /\ UNCHANGED <<metadata, pool, mergeVars, headVars, levelVars, docVars>>

NextTitle == SelectTitle

SpecTitle == InitTitle /\ [][NextTitle]_vars

\* the text without the blanks at its ends
Trimmed(t) ==
    IF \A i \in 1..Len(t) : t[i] = " " THEN <<>>
    ELSE LET a == CHOOSE i \in 1..Len(t) : t[i] # " " /\ \A j \in 1..(i - 1) : t[j] = " "
             b == CHOOSE i \in 1..Len(t) : t[i] # " " /\ \A j \in (i + 1)..Len(t) : t[j] = " "
         IN  [k \in 1..(b - a + 1) |-> t[a + k - 1]]

\* rule 1 applies
MetaRule == metadata.has_title /\ Len(Trimmed(metadata.title)) > 10
\* the page-1 lines of the pool with a bold span and the midpoint of the box
\* within a quarter of the page width of the page centre
BoldRule ==
    {i \in 1..Len(pool) :
        /\ pool[i].page_num = 1
        /\ \E k \in 1..Len(pool[i].spans) : pool[i].spans[k].bold
        /\ 2 * (pool[i].bbox[1] + pool[i].bbox[3]) > pool[i].page_width
        /\ 2 * (pool[i].bbox[1] + pool[i].bbox[3]) < 3 * pool[i].page_width}
\* the page-1 lines of the pool longer than 20 characters, more than half letters
LongRule ==
    {i \in 1..Len(pool) :
        /\ pool[i].page_num = 1
        /\ Len(pool[i].text) >= 21
        /\ 2 * Cardinality({k \in 1..Len(pool[i].text) : pool[i].text[k] \in Lower \cup Upper})
               > Len(pool[i].text)}


\* C5: the first matching rule supplies the title: (1) the trimmed metadata
\* title when its trimmed length exceeds 10; else (2) of the bold, centred
\* page-1 lines the one of the largest size (the earliest of these); else (3) the
\* earliest long, mostly alphabetic page-1 line; else (4) "Untitled".
C5_TitleChain ==
    pc = "titled" =>
        IF MetaRule THEN title = Trimmed(metadata.title)
        ELSE IF BoldRule # {}
        THEN \E i \in BoldRule :
                 /\ \A j \in BoldRule :
                        \/ pool[j].font_size < pool[i].font_size
                        \/ pool[j].font_size = pool[i].font_size /\ j >= i
                 /\ title = pool[i].text
        ELSE IF LongRule # {}
        THEN \E i \in LongRule : (\A j \in LongRule : j >= i) /\ title = pool[i].text
        ELSE title = Untitled

\* C5 witness: no usable metadata title; a long alphabetic page-1 line comes
\* first in the pool, but a bold centred line exists and supplied the title, and
\* it is not the earliest bold centred line either (a larger one follows it).
C5_Witness ==
    /\ pc = "titled" /\ ~MetaRule /\ metadata.has_title
    /\ \E i \in LongRule : (\A j \in BoldRule : i < j) /\ title # pool[i].text
    /\ \E i \in BoldRule : (\A j \in BoldRule : i <= j) /\ title # pool[i].text

----------------------------------------------------------------------------
(* SpecBody: one call of detect_body_style *)

MaxBodyLines == 5

BodyLine(size, font) ==
    Line(T_Short, 1, BoxLeft, PageRect.width, <<MergedSpan(T_Short, font, size, 0, BoxLeft)>>)

\* the same size in two fonts, and the same font in two sizes
BodyLines == {BodyLine(1200, "A"), BodyLine(1200, "B"), BodyLine(1800, "B")}

InitBody ==
    /\ pc = "detect"
    /\ lines \in SeqsUpTo(BodyLines, MaxBodyLines) \ {<<>>}
    /\ body_style = Idle
    /\ spans = Idle /\ spans0 = Idle /\ idx = Idle /\ merged = Idle
    /\ line = Idle /\ body = Idle /\ cand = Idle
    /\ headings = Idle /\ headings0 = Idle /\ labeled = Idle
    /\ metadata = Idle /\ pool = Idle /\ title = Idle
    /\ doc = Idle /\ heading_lines = Idle
    /\ outline = Idle /\ titlepool = Idle /\ result = Idle

\* main.py:52-55; process_pdf calls it on a non-empty list only (main.py:110)
Detect ==
    /\ pc = "detect"
    /\ IF CounterEmpty(lines)
       THEN pc' = "IndexError" /\ UNCHANGED body_style
       ELSE pc' = "detected" /\ body_style' = detect_body_style(lines)
    /\ UNCHANGED <<doc, lines, heading_lines, outline, titlepool, result,
                   mergeVars, headVars, levelVars, titleVars>>

NextBody == Detect

SpecBody == InitBody /\ [][NextBody]_vars

\* the (font size, font name) pair of a line
StylePair(l) == <<l.font_size, l.font_name>>
\* how many lines carry the pair
Occurrences(p) == Cardinality({i \in 1..Len(lines) : StylePair(lines[i]) = p})
\* where the pair is first met
FirstSeen(p) == CHOOSE i \in 1..Len(lines) :
                    StylePair(lines[i]) = p /\ \A j \in 1..(i - 1) : StylePair(lines[j]) # p

\* C8: the detected body style is a pair of the highest occurrence count, and
\* of the pairs with that count the one met first in the line sequence.
C8_MostFrequentFirst ==
    pc = "detected" =>
        LET p == <<body_style.font_size, body_style.font_name>>
        IN  /\ Occurrences(p) >= 1
            /\ \A i \in 1..Len(lines) :
                   /\ Occurrences(StylePair(lines[i])) <= Occurrences(p)
                   /\ Occurrences(StylePair(lines[i])) = Occurrences(p)
                          => FirstSeen(p) <= i

\* C8 witness: two pairs share the highest count, each met at least twice.
C8_Witness ==
    /\ pc = "detected"
    /\ \E i \in 1..Len(lines) :
           /\ StylePair(lines[i]) # <<body_style.font_size, body_style.font_name>>
           /\ Occurrences(StylePair(lines[i]))
                  = Occurrences(<<body_style.font_size, body_style.font_name>>)
           /\ Occurrences(StylePair(lines[i])) >= 2

----------------------------------------------------------------------------
(* process_pdf, main.py:108-125 *)

IsEmpty_UpToOne(ls) == Len(ls) <= 1

\* "if not lines"
IsEmpty(ls) == ls = <<>>

\* [l for l in lines if is_heading_candidate(l, body_style)]
HeadingLines(ls, b) ==
    LET Test(l) == is_heading_candidate(l, b) IN SelectSeq(ls, Test)

RECURSIVE WriteBack(_, _, _)
\* heading_lines holds the very dicts of lines: the lines list once
\* assign_heading_levels has written the levels into them
WriteBack(ls, b, leveled) ==
    IF ls = <<>> THEN <<>>
    ELSE IF is_heading_candidate(Head(ls), b)
         THEN <<Head(leveled)>> \o WriteBack(Tail(ls), b, Tail(leveled))
         ELSE <<Head(ls)>> \o WriteBack(Tail(ls), b, leveled)

OutlineLevels == {"H1", "H2", "H3"}

InOutline(h) == h.level \in OutlineLevels

RECURSIVE Entries(_)
Entries(hs) ==
    IF hs = <<>> THEN <<>>
    ELSE <<[level |-> Head(hs).level, text |-> Head(hs).text,
            page |-> Head(hs).page_num]>> \o Entries(Tail(hs))

\* main.py:116-120
Outline(lab) == Entries(SelectSeq(lab, InOutline))

TitlePool_Lines(hl, ls) == ls

\* "heading_lines or lines"
TitlePool(hl, ls) == IF hl # <<>> THEN hl ELSE ls

NoResult == [kind |-> "None"]
Result(t, o) == [kind |-> "dict", title |-> t, outline |-> o]

----------------------------------------------------------------------------
(* Spec: one call of process_pdf on a document *)

\* "Abstract and Summary"
T_Abstract ==
    <<"A", "b", "s", "t", "r", "a", "c", "t", " ", "a", "n", "d", " ", "S",
      "u", "m", "m", "a", "r", "y">>

MaxItems == 5

RawLine(bbox, ss) == [bbox |-> bbox, spans |-> ss]
PageBreak == [bbox |-> <<>>, spans |-> <<>>, page_break |-> TRUE]
IsBreak(item) == "page_break" \in DOMAIN item

BoxLeftA == <<50, 0, 130, 20>>
BoxLeftB == <<132, 0, 230, 20>>

\* two lines of body text; three unbold headings of falling size, the first in
\* two spans that merge, the second numbered; a bold, centred heading of a
\* fourth size; a blank line; the end of a page
DocItems ==
    { RawLine(BoxLeft, <<RawSpan(T_LongAlpha, "F", 1200, 0, BoxLeft)>>),
      RawLine(BoxLeft, <<RawSpan(T_Results \o <<" ">>, "F", 1200, 0, BoxLeft)>>),
      RawLine(BoxLeft, <<RawSpan(SubSeq(T_ChapterOverview, 1, 8), "F", 2400, 0, BoxLeftA),
                         RawSpan(SubSeq(T_ChapterOverview, 9, 16), "F", 2400, 4, BoxLeftB)>>),
      RawLine(BoxLeft, <<RawSpan(<<" ">> \o T_Methodology, "F", 2000, 0, BoxLeft)>>),
      RawLine(BoxLeft, <<RawSpan(T_Dashes, "G", 1600, 0, BoxLeft)>>),
      RawLine(BoxCentre, <<RawSpan(T_Abstract, "F", 1450, 18, BoxCentre)>>),
      RawLine(BoxLeft, <<RawSpan(<<" ">>, "F", 1200, 0, BoxLeftA),
                         RawSpan(<<" ", " ">>, "G", 1200, 0, BoxLeftB)>>),
      PageBreak }

DocMetas == {Meta(FALSE, <<>>), Meta(TRUE, T_MetaLong)}

\* an image block carries no lines
ImageBlock == [type |-> 1]

\* the blocks of a page that shows these raw lines: the first line in a text
\* block of its own, an image, the other lines in a second text block
BlocksOf(rawlines) ==
    IF rawlines = <<>> THEN <<ImageBlock>>
    ELSE <<[type |-> TextBlock, lines |-> <<Head(rawlines)>>], ImageBlock,
           [type |-> TextBlock, lines |-> Tail(rawlines)]>>

RECURSIVE PagesOf(_, _)
\* the pages of the document whose content is the item sequence
PagesOf(items, cur) ==
    IF items = <<>> THEN <<[width |-> PageRect.width, blocks |-> BlocksOf(cur)]>>
    ELSE IF IsBreak(Head(items))
         THEN <<[width |-> PageRect.width, blocks |-> BlocksOf(cur)]>>
              \o PagesOf(Tail(items), <<>>)
         ELSE PagesOf(Tail(items), Append(cur, Head(items)))

\* the opened document: its metadata and its pages
Document(md, items) == [metadata |-> md, pages |-> PagesOf(items, <<>>)]

Init ==
    /\ pc = "start"
    /\ \E md \in DocMetas, items \in DistinctSeqsUpTo(DocItems, MaxItems) :
           doc = Document(md, items)
    /\ lines = <<>> /\ body_style = Idle /\ heading_lines = <<>>
    /\ labeled = <<>> /\ outline = <<>> /\ titlepool = <<>> /\ title = <<>>
    /\ result = Idle
    /\ spans = Idle /\ spans0 = Idle /\ idx = Idle /\ merged = Idle
    /\ line = Idle /\ body = Idle /\ cand = Idle
    /\ headings = Idle /\ headings0 = Idle
    /\ metadata = Idle /\ pool = Idle

docFrame == <<mergeVars, headVars, headings, headings0, metadata, pool, doc>>

\* main.py:109
Extract ==
    /\ pc = "start"
    /\ lines' = extract_lines(doc)
    /\ pc' = "extracted"
    /\ UNCHANGED <<docFrame, body_style, heading_lines, labeled, outline,
                   titlepool, title, result>>

\* main.py:110-111
ReturnNone ==
    /\ pc = "extracted"
    /\ IsEmpty(lines)
    /\ result' = NoResult
    /\ pc' = "done"
    /\ UNCHANGED <<docFrame, lines, body_style, heading_lines, labeled, outline,
                   titlepool, title>>

\* main.py:113-114
DetectAndClassify ==
    /\ pc = "extracted"
    /\ ~IsEmpty(lines)
    /\ IF CounterEmpty(lines)
       THEN pc' = "IndexError" /\ UNCHANGED <<body_style, heading_lines>>
       ELSE /\ body_style' = detect_body_style(lines)
            /\ heading_lines' = HeadingLines(lines, body_style')
            /\ pc' = "classified"
    /\ UNCHANGED <<docFrame, lines, labeled, outline, titlepool, title, result>>

\* main.py:115-120
LevelAndProject ==
    /\ pc = "classified"
    /\ labeled' = assign_heading_levels(heading_lines)
    /\ heading_lines' = LevelAll(heading_lines)
    /\ lines' = WriteBack(lines, body_style, heading_lines')
    /\ outline' = Outline(labeled')
    /\ pc' = "outlined"
    /\ UNCHANGED <<docFrame, body_style, titlepool, title, result>>

\* main.py:121-125
TitleAndReturn ==
    /\ pc = "outlined"
    /\ titlepool' = TitlePool(heading_lines, lines)
    /\ title' = extract_best_title(doc.metadata, titlepool')
    /\ result' = Result(title', outline)
    /\ pc' = "done"
    /\ UNCHANGED <<docFrame, lines, body_style, heading_lines, labeled, outline>>

Next == Extract \/ ReturnNone \/ DetectAndClassify \/ LevelAndProject \/ TitleAndReturn

Spec == Init /\ [][Next]_vars


\* <<text, page>> of the lines of ls
Keys(ls) == [i \in 1..Len(ls) |-> <<ls[i].text, ls[i].page_num>>]

RECURSIVE IsSubsequence(_, _)
\* a is b with some elements left out
IsSubsequence(a, b) ==
    IF a = <<>> THEN TRUE
    ELSE IF b = <<>> THEN FALSE
    ELSE IF Head(a) = Head(b) THEN IsSubsequence(Tail(a), Tail(b))
    ELSE IsSubsequence(a, Tail(b))

\* the raw text of a raw line
RECURSIVE RawText(_)
RawText(ss) == IF ss = <<>> THEN <<>> ELSE Head(ss).text \o RawText(Tail(ss))

\* the raw lines of page p of the document, in the order the page shows them
RawLinesOfPage(p) ==
    LET bs == doc.pages[p].blocks
        RECURSIVE From(_)
        From(k) == IF k > Len(bs) THEN <<>>
                   ELSE IF bs[k].type = 0 THEN bs[k].lines \o From(k + 1)
                   ELSE From(k + 1)
    IN  From(1)

\* the canonical reading order: <<trimmed text, page>> of every raw line with
\* text, page after page, on a page in the order met
RECURSIVE ReadingOrderFrom(_)
ReadingOrderFrom(p) ==
    IF p > Len(doc.pages) THEN <<>>
    ELSE LET raws == RawLinesOfPage(p)
             HasText(r) == Trimmed(RawText(r.spans)) # <<>>
             shown == SelectSeq(raws, HasText)
         IN  [i \in 1..Len(shown) |-> <<Trimmed(RawText(shown[i].spans)), p>>]
             \o ReadingOrderFrom(p + 1)

Returned == pc = "done" /\ result.kind = "dict"

\* C6 as stated: the pool handed to title selection is the leveled-candidate
\* set (the output of assign_heading_levels) whenever that set is non-empty,
\* and the full Line set otherwise.
C6_LeveledPool ==
    Returned => titlepool = IF labeled # <<>> THEN labeled ELSE lines

\* C6 amended: the pool handed to title selection is the heading-candidate set
\* (every Line is_heading_candidate accepted, leveled or not) whenever that
\* set is non-empty, and the full Line set otherwise.
C6_CandidatePool ==
    Returned =>
        LET accepted == {i \in 1..Len(lines) : is_heading_candidate(lines[i], body_style)}
            Chosen(i) == accepted = {} \/ i \in accepted
            RECURSIVE Pick(_)
            Pick(i) == IF i > Len(lines) THEN <<>>
                       ELSE IF Chosen(i) THEN <<lines[i]>> \o Pick(i + 1)
                       ELSE Pick(i + 1)
        IN  titlepool = Pick(1)

\* C6 witness: leveled candidates exist, none of them on page 1 is bold, and
\* the title is the text of a candidate that assign_heading_levels dropped.
C6_Witness ==
    /\ Returned /\ labeled # <<>>
    /\ \A k \in 1..Len(labeled) : labeled[k].text # result.title
    /\ \E i \in 1..Len(heading_lines) :
           /\ "level" \notin DOMAIN heading_lines[i]
           /\ heading_lines[i].text = result.title

\* C7: the outline is a subsequence of the Lines in canonical reading order
\* (page order, then the order met on the page); the text and page of each entry
\* are those of a Line that is a heading candidate; each level is H1, H2 or H3.
C7_OutlineOrder ==
    Returned =>
        LET Cand(l) == is_heading_candidate(l, body_style)
            os == result.outline
        IN  /\ Keys(lines) = ReadingOrderFrom(1)
            /\ IsSubsequence([k \in 1..Len(os) |-> <<os[k].text, os[k].page>>],
                             Keys(SelectSeq(lines, Cand)))
            /\ \A k \in 1..Len(os) : os[k].level \in {"H1", "H2", "H3"}

\* C7 witness: an outline of two entries, one on each of two pages, with Lines
\* on both pages that are no entries.
C7_Witness ==
    /\ Returned /\ Len(result.outline) = 2
    /\ result.outline[1].page = 1 /\ result.outline[2].page = 2
    /\ \E i, j \in 1..Len(lines) :
           /\ lines[i].page_num = 1 /\ lines[j].page_num = 2
           /\ \A k \in 1..2 : result.outline[k].text \notin {lines[i].text, lines[j].text}

\* C9: process_pdf returns no result exactly when the Line sequence is empty;
\* a non-empty Line sequence always ends in a result with a title and an
\* outline (which may be empty), never in an exception.
C9_AbsentIffEmpty ==
    /\ pc # "IndexError"
    /\ pc = "done" =>
           /\ result = NoResult <=> lines = <<>>
           /\ lines # <<>> => /\ result.kind = "dict"
                              /\ Len(result.title) >= 1
                              /\ Len(result.outline) <= Len(lines)
    /\ pc \notin {"start", "extracted", "done"} => lines # <<>>

\* C9 witness: a document with raw lines, all of them blank, ended without a
\* result.
C9_Witness ==
    /\ pc = "done" /\ result = NoResult
    /\ \E p \in 1..Len(doc.pages) : RawLinesOfPage(p) # <<>>

====
